---- MODULE Spec2Model ----
(***************************************************************************)
(* Model of the imposter-game WebSocket backend: GameManager (the phase    *)
(* state machine), PlayerManager (connections and players), RoomManager    *)
(* (room bookkeeping), MessageProtocol (routing) and the GameServer glue.  *)
(*                                                                         *)
(* One action is one macrotask of the Node.js event loop: an inbound       *)
(* message, a transport close, a timer callback, or the completion of an   *)
(* awaited mirror write.  The part of an async handler that follows an     *)
(* await is a record in `tasks`.  Without a mirror (db = FALSE) every      *)
(* await resolves in the microtask queue: tasks run first-in first-out     *)
(* and no macrotask runs while one is queued.  With a mirror (db = TRUE)   *)
(* an await is real I/O: continuations complete in any order and other     *)
(* macrotasks interleave with them.                                        *)
(***************************************************************************)
EXTENDS Integers, Sequences, FiniteSets, TLC

\* ------------------------------------------------------------------ bounds
MaxClients == 2         \* connections ever accepted
MaxForced == 2          \* force_phase_transition messages accepted
MaxMirrorForced == 1    \* the same, while mirror writes are in flight
MaxTasks == 2           \* mirror writes outstanding when a macrotask starts
MaxCountdowns == 1      \* auto-start countdowns pending at once
MaxVotes == 3           \* votes handed to calculateVoteResults on its own
MaxAge == 8             \* heartbeat ages tracked, in units of 10 s

\* ----------------------------------------------------------- value domains
ClientIds == 1..MaxClients
PlayerIds == {"p1", "p2"}
\* A room code is the string of the payload, character by character.
Room123 == <<"1", "2", "3">>
Room456 == <<"4", "5", "6">>
RoomCodes == {Room123, Room456}
BadRoomCode == <<"1", "2">>
PaddedRoomCode == <<"1", "2", "3", " ">>
Digits == {"0", "1", "2", "3", "4", "5", "6", "7", "8", "9"}
Whitespace == {" "}
Phases == {"waiting", "question", "discussion", "voting", "results"}
NoPlayer == "null"
NoRoom == <<>>
NoClient == 0
NoTimeouts == [armed |-> {}, handle |-> 0]
MinPlayers == 2
\* Times are counted in units of 10 s: the interval of the heartbeat
\* (20000 ms) and PlayerManager.heartbeatTimeout (60000 ms).
HeartbeatPeriod == 2
HeartbeatTimeout == 6
DefaultQuestionId == 1
NoQuestion == 0

VARIABLES
  db,          \* GameServer.supabase is configured
  nextClient,  \* connections accepted so far + 1 (client ids are never reused)
  forced,      \* force_phase_transition messages accepted so far
  initPending, \* GameServer.initialize() has not completed yet
  clients,     \* PlayerManager.clients : clientId -> client record
  players,     \* PlayerManager.players : playerId -> player record
  rooms,       \* RoomManager.rooms     : code -> room record
  gameState,   \* GameManager.gameState
  phaseTimer,  \* GameManager.phaseTimer: the phase the armed timeout leads to
  timeouts,    \* armed: the timeouts set and neither fired nor cleared, each
               \* with the phase its callback transitions to; handle: the
               \* timeout GameManager.phaseTimer refers to, 0 for null
  tasks,       \* continuations of suspended async handlers
  evict,       \* clients with a pending setTimeout(() => removeClient(id), 0)
  countdowns,  \* pending 3 s auto-start timeouts of handleToggleReady
  answers,     \* players whose submit_answer was accepted in this question phase
  heartbeat,   \* age: per client, the time since client.lastHeartbeat;
               \* sinceSweep: the time since the heartbeat interval last ran
  last         \* the step just taken: handler, originating room, messages
               \* sent, the player removed by a resumed removePlayer, and the
               \* connection whose frame was handled

vars == <<db, nextClient, forced, initPending, clients, players, rooms, gameState, phaseTimer, timeouts,
          tasks, evict, countdowns, answers, heartbeat, last>>

\* ------------------------------------------------------------ small helpers
Remove(f, x) == [y \in DOMAIN f \ {x} |-> f[y]]

Put(f, x, v) == [y \in DOMAIN f \cup {x} |-> IF y = x THEN v ELSE f[y]]

SeqWithout(s, x) == SelectSeq(s, LAMBDA y : y # x)

SeqSet(s) == {s[i] : i \in 1..Len(s)}

Msg(type, to, ph) == [type |-> type, to |-> to, ph |-> ph]

Task(k, c, p, r, ph, prev, upd) ==
  [k |-> k, c |-> c, p |-> p, r |-> r, ph |-> ph, prev |-> prev, upd |-> upd]

\* The state that the helpers thread through a handler: cl = clients,
\* pl = players, rm = rooms, tk = tasks, ev = evict, out = the messages
\* sent so far in this step,
\* gs = gameState, tm = phaseTimer, an = answers,
\* cd = countdowns, who = the player a resumed removePlayer is removing,
\* from = the connection whose frame is being handled, o = the outcome of
\* the mirror write whose completion resumed the handler, hb = heartbeat,
\* ts = timeouts.
Reg == [cl |-> clients, pl |-> players, rm |-> rooms, tk |-> tasks,
        ev |-> evict, out |-> <<>>, gs |-> gameState, tm |-> phaseTimer,
        an |-> answers, cd |-> countdowns, who |-> NoPlayer, from |-> NoClient,
        o |-> "none", hb |-> heartbeat, ts |-> timeouts]

\* The same, at the start of the handling of a frame of connection c.
From(c) == [Reg EXCEPT !.from = c]

\* ------------------------------------------------------------- RoomManager
NewRoom == [players |-> <<>>, clients |-> {}, hostId |-> NoPlayer]

ensureRoom(rm, code) == IF code \in DOMAIN rm THEN rm ELSE Put(rm, code, NewRoom)

addClientToRoom(rm, code, c) ==
  LET r == ensureRoom(rm, code)
  IN  [r EXCEPT ![code].clients = @ \cup {c}]

\* removeClientFromRoom that keeps a room it has emptied
removeClientFromRoomKeeping(rm, code, c) ==
  IF code \notin DOMAIN rm THEN rm
  ELSE [rm EXCEPT ![code].clients = @ \ {c}]

removeClientFromRoom(rm, code, c) ==
  IF code \notin DOMAIN rm THEN rm
  ELSE LET room == [rm[code] EXCEPT !.clients = @ \ {c}]
       IN  IF room.clients = {} /\ room.players = <<>>
           THEN Remove(rm, code)
           ELSE [rm EXCEPT ![code] = room]

\* addPlayerToRoom without the designation of the first player as host
addPlayerToRoomWithoutHost(rm, code, p) ==
  LET r == ensureRoom(rm, code)
      ps == IF p \in SeqSet(r[code].players) THEN r[code].players
            ELSE Append(r[code].players, p)
  IN  [r EXCEPT ![code].players = ps]

addPlayerToRoom(rm, code, p) ==
  LET r == ensureRoom(rm, code)
      ps == IF p \in SeqSet(r[code].players) THEN r[code].players
            ELSE Append(r[code].players, p)
  IN  [r EXCEPT ![code].players = ps,
                ![code].hostId = IF @ = NoPlayer THEN p ELSE @]

\* The codes generateRoomCode can return: any code no room has yet.
generateRoomCode(rm) == RoomCodes \ DOMAIN rm

createRoom(rm, code, hostPlayerId) ==
  Put(rm, code, [NewRoom EXCEPT !.hostId = hostPlayerId])

\* removePlayerFromRoom without the deletion of the emptied room
removePlayerFromRoomKeepingRoom(rm, code, p) ==
  IF code \notin DOMAIN rm THEN rm
  ELSE LET ps == SeqWithout(rm[code].players, p)
           host == IF rm[code].hostId = p
                   THEN (IF ps = <<>> THEN NoPlayer ELSE Head(ps))
                   ELSE rm[code].hostId
       IN  [rm EXCEPT ![code] = [@ EXCEPT !.players = ps, !.hostId = host]]

removePlayerFromRoom(rm, code, p) ==
  IF code \notin DOMAIN rm THEN rm
  ELSE LET ps == SeqWithout(rm[code].players, p)
           host == IF rm[code].hostId = p
                   THEN (IF ps = <<>> THEN NoPlayer ELSE Head(ps))
                   ELSE rm[code].hostId
           room == [rm[code] EXCEPT !.players = ps, !.hostId = host]
       IN  IF room.clients = {} /\ room.players = <<>>
           THEN Remove(rm, code)
           ELSE [rm EXCEPT ![code] = room]

\* ----------------------------------------------- PlayerManager: fan-out
IsOpen(cl, c) == c \in DOMAIN cl /\ cl[c].open

\* client.ws.send(...) on an open socket returns without throwing.
CanSend(cl, c) == IsOpen(cl, c) /\ ~cl[c].sendFails

RECURSIVE removeClient(_, _)
RECURSIVE removePlayer(_, _, _)

\* A send that throws removes the client at once.
sendToClient(S, c, type, ph) ==
  IF CanSend(S.cl, c) THEN [S EXCEPT !.out = Append(@, Msg(type, {c}, ph))]
  ELSE IF IsOpen(S.cl, c) THEN removeClient(S, c)
  ELSE S

\* broadcastToAll with the loop abandoned at the first connection (in the
\* order of the client ids) whose socket is not open or whose send throws
broadcastToAllAborting(S, type, ph) ==
  LET bad == {c \in DOMAIN S.cl : ~CanSend(S.cl, c)}
      ok == {c \in DOMAIN S.cl : \A b \in bad : c < b}
  IN  [S EXCEPT !.out = Append(@, Msg(type, ok, ph)),
                !.ev = @ \cup bad]

\* A socket that is not open, or whose send throws, is skipped and its
\* client scheduled for removal.
broadcastToAll(S, type, ph) ==
  LET ok == {c \in DOMAIN S.cl : CanSend(S.cl, c)}
  IN  [S EXCEPT !.out = Append(@, Msg(type, ok, ph)),
                !.ev = @ \cup (DOMAIN S.cl \ ok)]

broadcastToRoom(S, code, type, ph) ==
  IF code \notin DOMAIN S.rm THEN S
  ELSE LET ok == {c \in S.rm[code].clients : CanSend(S.cl, c)}
       IN  [S EXCEPT !.out = Append(@, Msg(type, ok, ph)),
                     !.ev = @ \cup (S.rm[code].clients \ ok)]

broadcastPlayerList(S, code) ==
  IF code # NoRoom THEN broadcastToRoom(S, code, "player_list_update", "")
  ELSE broadcastToAll(S, "player_list_update", "")

\* ------------------------------------- PlayerManager: removal (sync parts)
findClientByPlayerId(cl, p) ==
  IF \E c \in DOMAIN cl : cl[c].playerId = p
  THEN CHOOSE c \in DOMAIN cl : cl[c].playerId = p
  ELSE NoClient

\* removePlayer up to its first await; what follows the await is the
\* "removeCont" task.  upd: the caller is handleLeave, which refreshes the
\* session's player list once removePlayer has resolved.
removePlayer(S, p, upd) ==
  IF p \notin DOMAIN S.pl THEN S
  ELSE LET player == S.pl[p]
           S1 == IF player.clientId \in DOMAIN S.cl
                 THEN removeClient(S, player.clientId) ELSE S
       IN  [S1 EXCEPT !.pl = Remove(@, p),
                      !.tk = Append(@, Task("removeCont", NoClient, p,
                                            player.roomCode, "", "", upd))]

\* removeClient without the removal from the room's connection set
removeClientFromRegistryOnly(S, c) ==
  IF c \notin DOMAIN S.cl THEN S
  ELSE LET client == S.cl[c]
           S1 == [S EXCEPT !.cl = Remove(@, c)]
           hasOtherClients == \E d \in DOMAIN S1.cl : S1.cl[d].playerId = client.playerId
       IN  IF client.playerId # NoPlayer /\ ~hasOtherClients
           THEN removePlayer(S1, client.playerId, FALSE) ELSE S1

removeClient(S, c) ==
  IF c \notin DOMAIN S.cl THEN S
  ELSE LET client == S.cl[c]
           S1 == [S EXCEPT !.cl = Remove(@, c)]
           hasOtherClients == \E d \in DOMAIN S1.cl : S1.cl[d].playerId = client.playerId
           S2 == IF client.playerId # NoPlayer /\ ~hasOtherClients
                 THEN removePlayer(S1, client.playerId, FALSE) ELSE S1
       IN  IF client.roomCode # NoRoom
           THEN [S2 EXCEPT !.rm = removeClientFromRoom(@, client.roomCode, c)]
           ELSE S2

\* ------------------------------------------------------------- GameManager
InitialGameState ==
  [phase |-> "waiting", players |-> {}, imposter |-> NoPlayer,
   questionId |-> NoQuestion, discussionEndsAt |-> FALSE, votes |-> <<>>,
   results |-> <<>>]

RECURSIVE FirstSeen(_)
\* The keys of voteCounts in insertion order.
FirstSeen(votes) ==
  IF votes = <<>> THEN <<>>
  ELSE LET front == FirstSeen(SubSeq(votes, 1, Len(votes) - 1))
           t == votes[Len(votes)].targetId
       IN  IF t \in SeqSet(front) THEN front ELSE Append(front, t)

\* Ids that are canonical array indices, in ascending numeric order.
IndexKeys == <<"1", "2">>

\* Object.entries(voteCounts): the own keys that are array indices first, in
\* ascending numeric order, then the other keys in insertion order.
entries(votes) ==
  LET seen == FirstSeen(votes)
  IN  SelectSeq(IndexKeys, LAMBDA k : k \in SeqSet(seen))
      \o SelectSeq(seen, LAMBDA k : k \notin SeqSet(IndexKeys))

CountFor(votes, t) == Cardinality({i \in 1..Len(votes) : votes[i].targetId = t})

\* A name that the object literal {} inherits from Object.prototype.
PrototypeKeys == {"constructor"}

\* What an entry of voteCounts that is no number compares as: `count >
\* maxVotes` is false for it, whatever maxVotes is.
NotANumber == -1

\* voteCounts[t] after the forEach `voteCounts[t] = (voteCounts[t] || 0) + 1`.
\* For an inherited name the first lookup yields the inherited function,
\* which is truthy, so the entry becomes a text and stays one.
voteCount(votes, t) ==
  IF t \in PrototypeKeys THEN NotANumber ELSE CountFor(votes, t)

RECURSIVE MostVotedFrom(_, _, _, _, _)
\* The forEach of calculateVoteResults over Object.entries(voteCounts).
MostVotedFrom(keys, votes, i, best, maxVotes) ==
  IF i > Len(keys) THEN best
  ELSE IF voteCount(votes, keys[i]) > maxVotes
       THEN MostVotedFrom(keys, votes, i + 1, keys[i], voteCount(votes, keys[i]))
       ELSE MostVotedFrom(keys, votes, i + 1, best, maxVotes)

calculateVoteResults(gs) ==
  LET keys == entries(gs.votes)
      mostVotedPlayer == MostVotedFrom(keys, gs.votes, 1, NoPlayer, 0)
  IN  [voteCounts |-> [t \in SeqSet(keys) |-> voteCount(gs.votes, t)],
       mostVotedPlayer |-> mostVotedPlayer,
       imposter |-> gs.imposter,
       playersWon |-> (mostVotedPlayer = gs.imposter),
       totalVotes |-> Len(gs.votes)]

getPublicGameState(gs) ==
  [phase |-> gs.phase, players |-> gs.players, questionId |-> gs.questionId,
   discussionEndsAt |-> gs.discussionEndsAt, votesReceived |-> Len(gs.votes),
   totalPlayers |-> Cardinality(gs.players), results |-> gs.results]

NoData == [questionId |-> NoQuestion, imposter |-> NoPlayer]

handleQuestionPhase(S, data) ==
  [S EXCEPT !.gs.questionId = IF data.questionId # NoQuestion THEN data.questionId ELSE @,
            !.gs.imposter = IF data.imposter # NoPlayer THEN data.imposter ELSE @]

\* setTimeout(callback, delay) assigned to this.phaseTimer: a new timeout
\* is armed and the field refers to it.
setTimeout(S, target) ==
  LET used == {t.id : t \in S.ts.armed}
      id == CHOOSE i \in 1..(Cardinality(used) + 1) :
              i \notin used /\ \A j \in 1..(i - 1) : j \in used
  IN  [S EXCEPT !.ts = [armed |-> S.ts.armed \cup {[id |-> id, to |-> target]},
                        handle |-> id],
                !.tm = target]

\* A reset of the field that leaves the timeout armed
forgetTimeout(S) == [S EXCEPT !.ts.handle = 0, !.tm = "none"]

\* if (this.phaseTimer) { clearTimeout(this.phaseTimer); this.phaseTimer = null }
clearTimeout(S) ==
  [S EXCEPT !.ts = [armed |-> {t \in S.ts.armed : t.id # S.ts.handle},
                    handle |-> 0],
            !.tm = "none"]

handleDiscussionPhase(S) ==
  setTimeout([S EXCEPT !.gs.discussionEndsAt = TRUE], "voting")

\* handleVotingPhase without the reset of the votes
handleVotingPhaseKeepingVotes(S) ==
  setTimeout([S EXCEPT !.gs.discussionEndsAt = FALSE], "results")

handleVotingPhase(S) ==
  setTimeout([S EXCEPT !.gs.votes = <<>>, !.gs.discussionEndsAt = FALSE], "results")

handleResultsPhase(S) ==
  setTimeout([S EXCEPT !.gs.results = <<calculateVoteResults(S.gs)>>], "waiting")

handleWaitingPhase(S) ==
  [S EXCEPT !.gs.imposter = NoPlayer, !.gs.questionId = NoQuestion,
            !.gs.votes = <<>>, !.gs.results = <<>>,
            !.gs.discussionEndsAt = FALSE]

\* transitionPhase with the phase_change broadcast sent first, before the
\* phase assignment and the phase handler
transitionPhaseBroadcastFirst(S, newPhase, data, room) ==
  LET S0 == broadcastToAll(S, "phase_change", newPhase)
      S1 == clearTimeout([S0 EXCEPT !.gs.phase = newPhase, !.an = {}])
  IN  CASE newPhase = "question"   -> handleQuestionPhase(S1, data)
        [] newPhase = "discussion" -> handleDiscussionPhase(S1)
        [] newPhase = "voting"     -> handleVotingPhase(S1)
        [] newPhase = "results"    -> handleResultsPhase(S1)
        [] newPhase = "waiting"    -> handleWaitingPhase(S1)

\* transitionPhase up to its first suspension: the phase assignment, the
\* timer reset and the phase handler.  The mirror update and the
\* phase_change broadcast are the "transCont" task.
transitionPhase(S, newPhase, data, room) ==
  LET previousPhase == S.gs.phase
      S1 == clearTimeout([S EXCEPT !.gs.phase = newPhase, !.an = {}])
      S2 == CASE newPhase = "question"   -> handleQuestionPhase(S1, data)
              [] newPhase = "discussion" -> handleDiscussionPhase(S1)
              [] newPhase = "voting"     -> handleVotingPhase(S1)
              [] newPhase = "results"    -> handleResultsPhase(S1)
              [] newPhase = "waiting"    -> handleWaitingPhase(S1)
  IN  [S2 EXCEPT !.tk = Append(@, Task("transCont", NoClient, NoPlayer, room,
                                       newPhase, previousPhase, FALSE))]

\* handleVote after the mirror insert: the vote_progress broadcast and the
\* completion check.
voteRest(S, room) ==
  LET S1 == broadcastToAll(S, "vote_progress", "")
  IN  IF Len(S1.gs.votes) >= Cardinality(S1.gs.players)
      THEN transitionPhase(clearTimeout(S1), "results", NoData, room)
      ELSE S1

\* ------------------------------------------------------------ step plumbing
CommitReg(S, ev, room) ==
  /\ clients' = S.cl
  /\ players' = S.pl
  /\ rooms' = S.rm
  /\ tasks' = S.tk
  /\ evict' = S.ev
  /\ gameState' = S.gs
  /\ phaseTimer' = S.tm
  /\ timeouts' = S.ts
  /\ answers' = S.an
  /\ countdowns' = S.cd
  /\ heartbeat' = S.hb
  /\ last' = [ev |-> ev, room |-> room, out |-> S.out, p |-> S.who, c |-> S.from,
              o |-> S.o]
  /\ UNCHANGED <<db, initPending>>

Commit(S, ev, room) == CommitReg(S, ev, room) /\ UNCHANGED <<nextClient, forced>>

\* A macrotask may start: initialization is over, and without a mirror the
\* microtask queue is empty; with a mirror at most MaxTasks writes are
\* outstanding.
CanRun ==
  /\ ~initPending
  /\ IF db THEN Len(tasks) < MaxTasks ELSE tasks = <<>>

\* An inbound frame of client c reaches MessageProtocol.handleMessage.
Inbound(c) == CanRun /\ c \in DOMAIN clients /\ clients[c].open

Authed(c) == clients[c].playerId # NoPlayer

\* MessageProtocol.messageTypes: whether the type requires a joined player,
\* the required and the optional fields of its payload schema, and the
\* schema's maxLength (0: none).
messageTypes ==
  [ping                   |-> [requiresAuth |-> FALSE, required |-> {},
                                optional |-> {}, maxLength |-> 0],
   pong                   |-> [requiresAuth |-> FALSE, required |-> {},
                                optional |-> {}, maxLength |-> 0],
   join                   |-> [requiresAuth |-> FALSE, required |-> {"playerName", "roomCode"},
                                optional |-> {"playerId", "email"}, maxLength |-> 0],
   leave                  |-> [requiresAuth |-> TRUE, required |-> {},
                                optional |-> {}, maxLength |-> 0],
   toggle_ready           |-> [requiresAuth |-> TRUE, required |-> {},
                                optional |-> {}, maxLength |-> 0],
   start_game             |-> [requiresAuth |-> TRUE, required |-> {},
                                optional |-> {}, maxLength |-> 0],
   chat_message           |-> [requiresAuth |-> FALSE, required |-> {"message"},
                                optional |-> {}, maxLength |-> 500],
   chat                   |-> [requiresAuth |-> FALSE, required |-> {"message"},
                                optional |-> {}, maxLength |-> 500],
   vote                   |-> [requiresAuth |-> TRUE, required |-> {"targetId"},
                                optional |-> {}, maxLength |-> 0],
   new_game               |-> [requiresAuth |-> TRUE, required |-> {},
                                optional |-> {}, maxLength |-> 0],
   test_message           |-> [requiresAuth |-> FALSE, required |-> {},
                                optional |-> {}, maxLength |-> 0],
   memory_test            |-> [requiresAuth |-> FALSE, required |-> {},
                                optional |-> {"data"}, maxLength |-> 0],
   submit_answer          |-> [requiresAuth |-> TRUE, required |-> {"answer"},
                                optional |-> {}, maxLength |-> 0],
   force_phase_transition |-> [requiresAuth |-> TRUE, required |-> {"phase"},
                                optional |-> {"adminKey"}, maxLength |-> 0]]

\* An inbound frame: whether it is JSON, its type ("": none), its timestamp
\* (missing or 0, within five minutes of now, further away, or a text that
\* is no number) and its payload (omitted, matching the schema, lacking a
\* required field, holding a schema field of the wrong primitive type, or
\* holding a message longer than any maxLength).
Frames ==
  [json : {TRUE},
   type : {"", "bogus", "vote", "chat_message"},
   timestamp : {"missing", "fresh", "stale", "text"},
   payload : {"omitted", "valid", "missing_field", "wrong_type", "too_long"}]
  \cup {[json |-> FALSE, type |-> "", timestamp |-> "missing", payload |-> "omitted"]}

\* parseMessage returns
parseMessage(f) == f.json

\* validateMessageStructure returns: |now - "text"| is NaN, and NaN > 300000
\* is false.
validateMessageStructure(f) ==
  /\ f.type # ""
  /\ f.timestamp # "missing"
  /\ f.timestamp # "stale"

\* validatePayloadSchema returns
validatePayloadSchema(payload, schema) ==
  CASE payload = "valid"         -> TRUE
    [] payload = "missing_field" -> schema.required = {}
    [] payload = "wrong_type"    -> schema.required \cup schema.optional = {}
    [] payload = "too_long"      ->
         ~("message" \in schema.required \cup schema.optional /\ schema.maxLength > 0)

\* validateMessage returns; authed: the sending connection has a player.
validateMessage(f, authed) ==
  /\ f.type \in DOMAIN messageTypes
  /\ messageTypes[f.type].requiresAuth => authed
  /\ f.payload # "omitted" => validatePayloadSchema(f.payload, messageTypes[f.type])

\* handleMessage reaches routeMessage with the frame.
Routed(f, authed) ==
  /\ parseMessage(f)
  /\ validateMessageStructure(f)
  /\ validateMessage(f, authed)

AuthenticationRequired == "Authentication required for this message type"

\* The message of the error handleMessage catches for a frame that is not
\* routed: the first check that throws.
Failure(f, authed) ==
  CASE ~parseMessage(f)         -> "Invalid JSON message format"
    [] f.type = ""              -> "Message missing required field: type"
    [] f.timestamp = "missing"  -> "Message missing required field: timestamp"
    [] f.timestamp = "stale"    -> "Message timestamp is too old or invalid"
    [] f.type \notin DOMAIN messageTypes -> "Unknown message type"
    [] messageTypes[f.type].requiresAuth /\ ~authed -> AuthenticationRequired
    [] f.payload = "missing_field" -> "Missing required field"
    [] f.payload = "wrong_type" -> "Field must be a string"
    [] OTHER                    -> "Message too long"

\* validateMessage with the authentication check left out
AdmittedUnchecked(c, type) == type \in DOMAIN messageTypes

\* The authentication check of validateMessage for a frame of this type
\* from connection c.
Admitted(c, type) == messageTypes[type].requiresAuth => Authed(c)

\* The error envelope sent to every open connection instead of the sender.
sendErrorToAll(S, c, message) == broadcastToAll(S, "error", message)

\* MessageProtocol.handleMessage's catch: one error envelope to the sender,
\* carrying the message of the error thrown.
sendError(S, c, message) == sendToClient(S, c, "error", message)

\* --------------------------------------------------------------- GameServer
InitWith(mirror) ==
  /\ db = mirror
  /\ nextClient = 1
  /\ forced = 0
  /\ initPending = db
  /\ clients = <<>>
  /\ players = <<>>
  /\ rooms = <<>>
  /\ gameState = InitialGameState
  /\ phaseTimer = "none"
  /\ timeouts = NoTimeouts
  /\ tasks = <<>>
  /\ evict = {}
  /\ countdowns = 0
  /\ answers = {}
  /\ heartbeat = [age |-> [c \in ClientIds |-> 0], sinceSweep |-> 0]
  /\ last = [ev |-> "init", room |-> NoRoom, out |-> <<>>, p |-> NoPlayer,
              c |-> NoClient, o |-> "none"]

Init == InitWith(FALSE)

InitMirror == InitWith(TRUE)

\* The rows GameManager.updateGameStateInDatabase can have left in the
\* games table, and no row at all.
NoRow == [phase |-> "", question_id |-> NoQuestion, imposter_id |-> NoPlayer]

GameRows ==
  {NoRow, [phase |-> "waiting", question_id |-> NoQuestion, imposter_id |-> NoPlayer]}
  \cup {[phase |-> ph, question_id |-> DefaultQuestionId, imposter_id |-> "p1"] :
          ph \in Phases \ {"waiting"}}

\* GameServer.initialize -> GameManager.initializeGame with the row read.
initializeGame(gs, gameData) ==
  IF gameData = NoRow THEN gs
  ELSE [gs EXCEPT !.phase = gameData.phase,
                  !.questionId = gameData.question_id,
                  !.imposter = gameData.imposter_id]

InitializeGame(gameData) ==
  /\ initPending
  /\ initPending' = FALSE
  /\ gameState' = initializeGame(gameState, gameData)
  /\ last' = [ev |-> "initialize", room |-> NoRoom, out |-> <<>>, p |-> NoPlayer,
              c |-> NoClient, o |-> "none"]
  /\ UNCHANGED <<db, nextClient, forced, clients, players, rooms, phaseTimer,
                 timeouts, tasks, evict, countdowns, answers, heartbeat>>

\* wss.on('connection'): the new connection gets a fresh client id.
Connect(c) ==
  /\ CanRun
  /\ c = nextClient
  /\ c <= MaxClients
  /\ nextClient' = nextClient + 1
  /\ UNCHANGED forced
  /\ LET S1 == [Reg EXCEPT !.cl = Put(@, c, [open |-> TRUE, sendFails |-> FALSE,
                                             playerId |-> NoPlayer,
                                             roomCode |-> NoRoom]),
                           !.hb.age[c] = 0]
     IN  CommitReg(sendToClient(S1, c, "connection_established", ""), "connect", NoRoom)

\* The socket leaves the OPEN state; its close event has not been
\* dispatched yet.
SocketClosing(c) ==
  /\ CanRun
  /\ c \in DOMAIN clients /\ clients[c].open
  /\ Commit([Reg EXCEPT !.cl[c].open = FALSE], "closing", clients[c].roomCode)

\* From now on every send on the still open socket throws.
SocketBreaking(c) ==
  /\ CanRun
  /\ c \in DOMAIN clients /\ CanSend(clients, c)
  /\ Commit([Reg EXCEPT !.cl[c].sendFails = TRUE], "breaking", clients[c].roomCode)

\* ws.on('close') / ws.on('error') -> GameServer.handleDisconnect
Close(c) ==
  /\ CanRun
  /\ c \in DOMAIN clients
  /\ Commit(removeClient(Reg, c), "close", clients[c].roomCode)

\* The setTimeout(() => removeClient(clientId), 0) of a failed delivery.
EvictRun(c) ==
  /\ CanRun
  /\ c \in evict
  /\ Commit(removeClient([Reg EXCEPT !.ev = @ \ {c}], c), "evict", NoRoom)

\* ------------------------------------------------ PlayerManager: addPlayer
\* addPlayer without the removal of the player's existing connection
addPlayerKeepingExisting(S, c, p, code) ==
  [S EXCEPT
     !.cl = Put(@, c, [open |-> S.cl[c].open, sendFails |-> S.cl[c].sendFails,
                       playerId |-> p, roomCode |-> code]),
     !.pl = Put(@, p, [roomCode |-> code, ready |-> FALSE, clientId |-> c]),
     !.rm = addPlayerToRoom(addClientToRoom(@, code, c), code, p),
     !.hb.age[c] = 0,
     !.tk = Append(@, Task("joinCont", c, p, code, "", "", FALSE))]

\* addPlayer up to its first await.  A join that names the player of the
\* sending connection itself closes that very socket (removeClient) and
\* registers it again.
addPlayer(S, c, p, code) ==
  LET existing == findClientByPlayerId(S.cl, p)
      S1 == IF existing # NoClient THEN removeClient(S, existing) ELSE S
      ws == IF existing = c THEN FALSE ELSE S.cl[c].open
  IN  [S1 EXCEPT
         !.cl = Put(@, c, [open |-> ws, sendFails |-> S.cl[c].sendFails,
                           playerId |-> p, roomCode |-> code]),
         !.pl = Put(@, p, [roomCode |-> code, ready |-> FALSE, clientId |-> c]),
         !.rm = addPlayerToRoom(addClientToRoom(@, code, c), code, p),
         !.hb.age[c] = 0,
         !.tk = Append(@, Task("joinCont", c, p, code, "", "", FALSE))]

getActivePlayers(pl) == DOMAIN pl

getPlayerCount(pl) == Cardinality(DOMAIN pl)

areAllPlayersReady(pl) ==
  /\ DOMAIN pl # {}
  /\ \A p \in DOMAIN pl : pl[p].ready

updatePlayers(S) == [S EXCEPT !.gs.players = getActivePlayers(S.pl)]

\* ---------------------------------------------- MessageProtocol: handlers
RECURSIVE trim(_)
\* String.prototype.trim
trim(code) ==
  IF code = <<>> THEN code
  ELSE IF Head(code) \in Whitespace THEN trim(Tail(code))
  ELSE IF code[Len(code)] \in Whitespace THEN trim(SubSeq(code, 1, Len(code) - 1))
  ELSE code

\* /^\d{3}$/.test((payload.roomCode || '').trim())
ValidRoomCode(code) ==
  LET t == trim(code)
  IN  Len(t) = 3 /\ \A i \in 1..Len(t) : t[i] \in Digits

handleJoin(S, c, p, code) ==
  IF ~ValidRoomCode(code) THEN sendError(S, c, "Invalid room code")
  ELSE addPlayer(S, c, p, code)

handleLeave(S, c) == removePlayer(S, S.cl[c].playerId, TRUE)

\* handleToggleReady with the auto-start decision taken on readiness alone
handleToggleReadyAnyCount(S, c) ==
  LET p == S.cl[c].playerId
  IN  IF p \notin DOMAIN S.pl THEN S
      ELSE LET S1 == [S EXCEPT !.pl[p].ready = ~@]
               S2 == broadcastPlayerList(S1, NoRoom)
           IN  IF areAllPlayersReady(S2.pl)
               THEN [broadcastToAll(S2, "game_starting", "") EXCEPT !.cd = @ + 1]
               ELSE S2

\* togglePlayerReady and the auto-start decision of handleToggleReady
handleToggleReady(S, c) ==
  LET p == S.cl[c].playerId
  IN  IF p \notin DOMAIN S.pl THEN S
      ELSE LET S1 == [S EXCEPT !.pl[p].ready = ~@]
               S2 == broadcastPlayerList(S1, NoRoom)
           IN  IF areAllPlayersReady(S2.pl) /\ getPlayerCount(S2.pl) >= MinPlayers
               THEN [broadcastToAll(S2, "game_starting", "") EXCEPT !.cd = @ + 1]
               ELSE S2

\* handleStartGame's checks without the player count
StartAllowedAnyCount(S) == S.gs.phase = "waiting"

StartAllowed(S) ==
  /\ S.gs.phase = "waiting"
  /\ getPlayerCount(S.pl) >= MinPlayers

\* handleStartGame once its checks have passed; imposter is the random pick.
startGame(S, imposter, room) ==
  transitionPhase(S, "question",
                  [questionId |-> DefaultQuestionId, imposter |-> imposter], room)

\* handleVote without its duplicate-voter check
VoteAllowedAnyVoter(gs, p) == gs.phase = "voting"

\* handleVote's checks without the phase check
VoteAllowedAnyPhase(gs, p) ==
  \A i \in 1..Len(gs.votes) : gs.votes[i].playerId # p

VoteAllowed(gs, p) ==
  /\ gs.phase = "voting"
  /\ \A i \in 1..Len(gs.votes) : gs.votes[i].playerId # p

\* GameManager.handleVote once its checks have passed
recordVote(S, p, target, room) ==
  LET S1 == [S EXCEPT !.gs.votes = Append(@, [playerId |-> p, targetId |-> target])]
  IN  IF db
      THEN [S1 EXCEPT !.tk = Append(@, Task("voteCont", NoClient, p, room, "", "", FALSE))]
      ELSE voteRest(S1, room)

\* ------------------------------------------------------- inbound messages
Join(c, p, code) ==
  /\ Inbound(c)
  /\ Commit(handleJoin(From(c), c, p, code), "join", code)

Leave(c) ==
  /\ Inbound(c)
  /\ IF Admitted(c, "leave") THEN Commit(handleLeave(From(c), c), "leave", clients[c].roomCode)
     ELSE Commit(sendError(From(c), c, AuthenticationRequired), "leave", NoRoom)

ToggleReady(c) ==
  /\ Inbound(c)
  /\ countdowns < MaxCountdowns
  /\ IF Admitted(c, "toggle_ready")
     THEN Commit(handleToggleReady(From(c), c), "toggle_ready", clients[c].roomCode)
     ELSE Commit(sendError(From(c), c, AuthenticationRequired), "toggle_ready", NoRoom)

StartGame(c) ==
  /\ Inbound(c)
  /\ IF Admitted(c, "start_game") /\ StartAllowed(From(c))
     THEN \E imposter \in getActivePlayers(players) :
            Commit(startGame(From(c), imposter, clients[c].roomCode),
                   "start_game", clients[c].roomCode)
     ELSE Commit(sendError(From(c), c,
                           IF ~Admitted(c, "start_game") THEN AuthenticationRequired
                           ELSE IF gameState.phase # "waiting"
                                THEN "Game is already in progress"
                                ELSE "Need at least 2 players to start game"),
                 "start_game", clients[c].roomCode)

\* The 3 s timeout armed by handleToggleReady calls handleStartGame
\* outside handleMessage: a failed check is an unhandled rejection.
CountdownFire ==
  /\ CanRun
  /\ countdowns > 0
  /\ LET S == [Reg EXCEPT !.cd = @ - 1]
     IN  IF StartAllowed(S)
         THEN \E imposter \in getActivePlayers(players) :
                Commit(startGame(S, imposter, NoRoom), "countdown", NoRoom)
         ELSE Commit(S, "countdown", NoRoom)

Vote(c, target) ==
  /\ Inbound(c)
  /\ IF Admitted(c, "vote") /\ VoteAllowed(gameState, clients[c].playerId)
     THEN Commit(recordVote(From(c), clients[c].playerId, target, clients[c].roomCode),
                 "vote", clients[c].roomCode)
     ELSE Commit(sendError(From(c), c,
                           IF ~Admitted(c, "vote") THEN AuthenticationRequired
                           ELSE IF gameState.phase # "voting"
                                THEN "Voting is not currently active"
                                ELSE "Player has already voted"),
                 "vote", clients[c].roomCode)

NewGame(c) ==
  /\ Inbound(c)
  /\ IF Admitted(c, "new_game") /\ gameState.phase = "results"
     THEN Commit(transitionPhase(From(c), "waiting", NoData, clients[c].roomCode),
                 "new_game", clients[c].roomCode)
     ELSE Commit(sendError(From(c), c,
                           IF ~Admitted(c, "new_game") THEN AuthenticationRequired
                           ELSE "New game can only be started from results phase"),
                 "new_game", clients[c].roomCode)

ForcePhaseTransition(c, ph) ==
  /\ Inbound(c)
  /\ IF Admitted(c, "force_phase_transition")
     THEN /\ forced < MaxForced
          /\ forced' = forced + 1
          /\ UNCHANGED nextClient
          /\ CommitReg(transitionPhase(From(c), ph, NoData, clients[c].roomCode),
                       "force_phase_transition", clients[c].roomCode)
     ELSE Commit(sendError(From(c), c, AuthenticationRequired),
                 "force_phase_transition", NoRoom)

\* A frame that fails decoding or validation: handleMessage's catch.
Reject(c, f) ==
  /\ Inbound(c)
  /\ ~Routed(f, Authed(c))
  /\ Commit(sendError(From(c), c, Failure(f, Authed(c))), "rejected", NoRoom)

\* handleChatMessage: no phase check, no authentication
Chat(c) ==
  /\ Inbound(c)
  /\ Commit(broadcastToAll(From(c), "chat_message", ""), "chat", clients[c].roomCode)

SubmitAllowed(gs) == gs.phase \in {"question", "discussion"}

handleSubmitAnswer(S, c) ==
  LET p == S.cl[c].playerId
      S1 == [S EXCEPT !.an = IF S.gs.phase = "question" THEN @ \cup {p} ELSE @]
  IN  IF db
      THEN [S1 EXCEPT !.tk = Append(@, Task("answerCont", NoClient, p,
                                            S.cl[c].roomCode, "", "", FALSE))]
      ELSE broadcastToAll(S1, "answer_submitted", "")

SubmitAnswer(c) ==
  /\ Inbound(c)
  /\ IF Admitted(c, "submit_answer") /\ SubmitAllowed(gameState)
     THEN Commit(handleSubmitAnswer(From(c), c), "submit_answer", clients[c].roomCode)
     ELSE Commit(sendError(From(c), c,
                           IF ~Admitted(c, "submit_answer") THEN AuthenticationRequired
                           ELSE "Answers can only be submitted during question or discussion phase"),
                 "submit_answer", clients[c].roomCode)

\* The frames of the two types below that pass the structural validation,
\* with every kind of payload.
SchemaFrames ==
  [json : {TRUE}, type : {"submit_answer", "chat_message"}, timestamp : {"fresh"},
   payload : {"omitted", "valid", "missing_field", "wrong_type", "too_long"}]

\* The message of the TypeError thrown by a handler that reads a field of
\* an omitted payload.
PayloadTypeError == "Cannot read properties of undefined"

\* routeMessage for a frame that passed validation.  handleSubmitAnswer
\* reads payload.answer only inside its try block, and only with a mirror;
\* handleChatMessage reads payload.message while it builds the broadcast.
routeMessage(S, c, f) ==
  CASE f.type = "submit_answer" ->
         IF SubmitAllowed(S.gs) THEN handleSubmitAnswer(S, c)
         ELSE sendError(S, c, "Answers can only be submitted during question or discussion phase")
    [] f.type = "chat_message" ->
         IF f.payload = "omitted" THEN sendError(S, c, PayloadTypeError)
         ELSE broadcastToAll(S, "chat_message", "")

\* MessageProtocol.handleMessage for a frame of connection c.
Receive(c, f) ==
  /\ Inbound(c)
  /\ IF Routed(f, Authed(c))
     THEN Commit(routeMessage(From(c), c, f), f.type, clients[c].roomCode)
     ELSE Commit(sendError(From(c), c, Failure(f, Authed(c))), "rejected", NoRoom)

\* PlayerManager.updateHeartbeat
updateHeartbeat(S, c) ==
  IF c \in DOMAIN S.cl THEN [S EXCEPT !.hb.age[c] = 0] ELSE S

\* handlePing
Ping(c) ==
  /\ Inbound(c)
  /\ Commit(sendToClient(updateHeartbeat(From(c), c), c, "pong", ""),
            "ping", clients[c].roomCode)

\* handlePong
Pong(c) ==
  /\ Inbound(c)
  /\ Commit(updateHeartbeat(From(c), c), "pong", clients[c].roomCode)

\* ------------------------------------------------------------------ timers
\* The timeout armed by handleDiscussionPhase / handleVotingPhase /
\* handleResultsPhase fires.
TimerFire ==
  /\ CanRun
  /\ \E t \in timeouts.armed :
       Commit(transitionPhase([Reg EXCEPT !.ts.armed = @ \ {t}], t.to, NoData, NoRoom),
              "timer", NoRoom)

\* One tick of a startDiscussionTimer interval.  Every entry to discussion
\* starts an interval, and an interval that ticks outside discussion (or
\* with no deadline) only clears itself, so a tick is modelled where it
\* broadcasts: in discussion with a deadline set.
DiscussionTick ==
  /\ CanRun
  /\ gameState.phase = "discussion" /\ gameState.discussionEndsAt
  /\ Commit(broadcastToAll(Reg, "discussion_timer", ""), "tick", NoRoom)

RECURSIVE removeAll(_, _)
removeAll(S, cs) ==
  IF cs = {} THEN S
  ELSE LET c == CHOOSE x \in cs : \A y \in cs : x <= y
       IN  removeAll(removeClient(S, c), cs \ {c})

sendHeartbeatPings(S) ==
  LET failing == {c \in DOMAIN S.cl : IsOpen(S.cl, c) /\ ~CanSend(S.cl, c)}
      S1 == [S EXCEPT !.out = Append(@, Msg("ping", {c \in DOMAIN S.cl : CanSend(S.cl, c)}, ""))]
  IN  removeAll(S1, failing)

\* One heartbeat interval callback: pings, then cleanupStaleConnections
\* for the clients whose last heartbeat is at least heartbeatTimeout old.
HeartbeatSweep(stale) ==
  /\ CanRun
  /\ stale \subseteq DOMAIN clients
  /\ Commit(removeAll(sendHeartbeatPings(Reg), stale), "sweep", NoRoom)

\* cleanupStaleConnections with `>` for `>=`
cleanupStaleConnectionsLate(S) ==
  removeAll(S, {c \in DOMAIN S.cl : S.hb.age[c] > HeartbeatTimeout})

\* cleanupStaleConnections: the clients whose last heartbeat is at least
\* heartbeatTimeout old are removed.
cleanupStaleConnections(S) ==
  removeAll(S, {c \in DOMAIN S.cl : S.hb.age[c] >= HeartbeatTimeout})

\* 10 s pass without the heartbeat interval being due.
Advance ==
  /\ CanRun
  /\ heartbeat.sinceSweep < HeartbeatPeriod
  /\ \A c \in DOMAIN clients : heartbeat.age[c] < MaxAge
  /\ Commit([Reg EXCEPT !.hb = [age |-> [c \in ClientIds |->
                                           IF c \in DOMAIN clients
                                           THEN heartbeat.age[c] + 1 ELSE 0],
                                 sinceSweep |-> heartbeat.sinceSweep + 1]],
            "advance", NoRoom)

\* The heartbeat interval callback, run when it is due: pings, then
\* cleanupStaleConnections.
Sweep ==
  /\ CanRun
  /\ heartbeat.sinceSweep = HeartbeatPeriod
  /\ Commit(cleanupStaleConnections(
              sendHeartbeatPings([Reg EXCEPT !.hb.sinceSweep = 0])),
            "sweep", NoRoom)

\* ---------------------------------------------------------- continuations
TaskReady(i) ==
  /\ ~initPending
  /\ i \in 1..Len(tasks)
  /\ db \/ i = 1

Dequeue(i) ==
  [Reg EXCEPT !.tk = SubSeq(@, 1, i - 1) \o SubSeq(@, i + 1, Len(@))]

\* How a mirror write ends: the row was written, the call threw or returned
\* an error, or no mirror is configured and the helper returned at once.
Outcomes == {"written", "failed", "absent"}

\* What the awaiting caller sees of each write.  Every one of them sits in a
\* try/catch that logs and falls through, so the await returns normally.
updatePlayerInDatabase(o) == "returned"

updateGameStateInDatabaseThrowing(o) == IF o = "failed" THEN "thrown" ELSE "returned"

updateGameStateInDatabase(o) == "returned"

insertVote(o) == "returned"

insertAnswer(o) == "returned"

\* removePlayer after its await, and handleLeave after removePlayer
removeCont(S, t, o) ==
  LET S1 == IF t.r # NoRoom
            THEN [S EXCEPT !.rm = removePlayerFromRoom(@, t.r, t.p)] ELSE S
      S2 == [broadcastPlayerList(S1, t.r) EXCEPT !.who = t.p]
  IN  IF updatePlayerInDatabase(o) # "returned" THEN [S EXCEPT !.who = t.p]
      ELSE IF t.upd THEN updatePlayers(S2) ELSE S2

\* addPlayer after its await, and handleJoin after addPlayer; a throw would
\* reach handleMessage's catch.
joinCont(S, t, o) ==
  IF updatePlayerInDatabase(o) # "returned"
  THEN sendError(S, t.c, "Database operation failed")
  ELSE sendToClient(updatePlayers(broadcastPlayerList(S, t.r)), t.c, "join_success", "")

\* transitionPhase after the mirror update; a throw would skip the
\* broadcast.
transCont(S, t, o) ==
  IF updateGameStateInDatabase(o) # "returned" THEN S
  ELSE broadcastToAll(S, "phase_change", t.ph)

\* handleVote after the insert
voteCont(S, t, o) ==
  IF insertVote(o) # "returned" THEN S ELSE voteRest(S, t.r)

\* handleSubmitAnswer after the insert
answerCont(S, t, o) ==
  IF insertAnswer(o) # "returned" THEN S
  ELSE broadcastToAll(S, "answer_submitted", "")

\* The handler suspended in task t, resumed from S with outcome o.
Resume(S, t, o) ==
  LET S0 == [S EXCEPT !.o = o]
  IN  CASE t.k = "removeCont" -> removeCont(S0, t, o)
        [] t.k = "joinCont"   -> joinCont(S0, t, o)
        [] t.k = "transCont"  -> transCont(S0, t, o)
        [] t.k = "voteCont"   -> voteCont(S0, t, o)
        [] t.k = "answerCont" -> answerCont(S0, t, o)

RunTask(i, o) ==
  /\ TaskReady(i)
  /\ (o = "absent") = ~db
  /\ Commit(Resume(Dequeue(i), tasks[i], o), tasks[i].k, tasks[i].r)

\* ------------------------------------------------------------ specification
\* A connection's first join, to room 123.
FirstJoin(c, p) == c \in DOMAIN clients /\ ~Authed(c) /\ Join(c, p, Room123)

\* Membership of one room, as the session sees it.
MemberNext ==
  \/ \E c \in ClientIds : Connect(c)
  \/ \E c \in ClientIds, p \in PlayerIds : FirstJoin(c, p)
  \/ \E c \in ClientIds : Leave(c)
  \/ \E c \in ClientIds : Close(c)

\* Votes, phase changes and continuations.
PlayNext ==
  \/ \E c \in ClientIds, t \in PlayerIds : Vote(c, t)
  \/ \E c \in ClientIds : NewGame(c)
  \/ TimerFire
  \/ \E i \in 1..MaxTasks + 2, o \in Outcomes : RunTask(i, o)

\* The session without a mirror: membership, readiness, the game messages
\* and the timers.
Next ==
  \/ MemberNext
  \/ PlayNext
  \/ \E c \in ClientIds : ToggleReady(c)
  \/ \E c \in ClientIds : StartGame(c)
  \/ CountdownFire
  \/ \E c \in ClientIds, ph \in Phases : ForcePhaseTransition(c, ph)
  \/ \E c \in ClientIds : SubmitAnswer(c)
  \/ DiscussionTick

Spec == Init /\ [][Next]_vars

\* A force_phase_transition while mirror writes may be in flight.
MirrorForce(c, ph) == forced < MaxMirrorForced /\ ForcePhaseTransition(c, ph)

\* The session with a mirror: the restored row, membership, votes, phase
\* changes, and the completions of the mirror writes in any order.
MirrorNext ==
  \/ \E row \in GameRows : InitializeGame(row)
  \/ MemberNext
  \/ PlayNext
  \/ \E c \in ClientIds, ph \in Phases : MirrorForce(c, ph)

MirrorSpec == InitMirror /\ [][MirrorNext]_vars

\* A connection's first join, to either room or with a malformed code.
RoomJoin(c, p, code) == c \in DOMAIN clients /\ ~Authed(c) /\ Join(c, p, code)

\* Two rooms without a mirror: first joins, departures, closing sockets,
\* evictions, the heartbeat, chat, readiness and the game start.
RoomsNext ==
  \/ \E c \in ClientIds : Connect(c)
  \/ \E c \in ClientIds, p \in PlayerIds,
        code \in RoomCodes \cup {BadRoomCode} : RoomJoin(c, p, code)
  \/ \E c \in ClientIds : Leave(c)
  \/ \E c \in ClientIds : Close(c)
  \/ \E c \in ClientIds : SocketClosing(c)
  \/ \E c \in ClientIds : EvictRun(c)
  \/ \E stale \in SUBSET ClientIds : HeartbeatSweep(stale)
  \/ \E c \in ClientIds : Chat(c)
  \/ \E c \in ClientIds : Ping(c)
  \/ \E c \in ClientIds : ToggleReady(c)
  \/ \E c \in ClientIds : StartGame(c)
  \/ CountdownFire
  \/ \E i \in 1..MaxTasks + 2, o \in Outcomes : RunTask(i, o)

RoomsSpec == Init /\ [][RoomsNext]_vars

\* The registry without a mirror: joins with the code 123, with that code
\* padded, or with a malformed code, on any open connection (joined already
\* or not), departures, frames that fail validation and transport closes.
RegistryNext ==
  \/ \E c \in ClientIds : Connect(c)
  \/ \E c \in ClientIds, p \in PlayerIds,
        code \in {Room123, PaddedRoomCode, BadRoomCode} : Join(c, p, code)
  \/ \E c \in ClientIds : Leave(c)
  \/ \E c \in ClientIds : Close(c)
  \/ \E c \in ClientIds, f \in Frames : Reject(c, f)
  \/ \E i \in 1..MaxTasks + 2, o \in Outcomes : RunTask(i, o)

RegistrySpec == Init /\ [][RegistryNext]_vars

\* One RoomManager call: only the room map changes.
RoomOp(rm, op, code) ==
  /\ rooms' = rm
  /\ last' = [ev |-> op, room |-> code, out |-> <<>>, p |-> NoPlayer,
              c |-> NoClient, o |-> "none"]
  /\ UNCHANGED <<db, nextClient, forced, initPending, clients, players, gameState,
                 phaseTimer, timeouts, tasks, evict, countdowns, answers, heartbeat>>

\* POST /rooms, and createRoom with a host
CreateRoom(code, host) ==
  /\ code \in generateRoomCode(rooms)
  /\ RoomOp(createRoom(rooms, code, host), "createRoom", code)

EnsureRoom(code) ==
  /\ ValidRoomCode(code)
  /\ RoomOp(ensureRoom(rooms, code), "ensureRoom", code)

AddClientToRoom(code, c) ==
  /\ ValidRoomCode(code)
  /\ RoomOp(addClientToRoom(rooms, code, c), "addClientToRoom", code)

AddPlayerToRoom(code, p) ==
  /\ ValidRoomCode(code)
  /\ RoomOp(addPlayerToRoom(rooms, code, p), "addPlayerToRoom", code)

RemoveClientFromRoom(code, c) ==
  /\ ValidRoomCode(code)
  /\ RoomOp(removeClientFromRoom(rooms, code, c), "removeClientFromRoom", code)

RemovePlayerFromRoom(code, p) ==
  /\ ValidRoomCode(code)
  /\ RoomOp(removePlayerFromRoom(rooms, code, p), "removePlayerFromRoom", code)

\* The RoomManager on its own, under any sequence of its operations.
RoomManagerNext ==
  \/ \E code \in RoomCodes, host \in PlayerIds \cup {NoPlayer} : CreateRoom(code, host)
  \/ \E code \in RoomCodes : EnsureRoom(code)
  \/ \E code \in RoomCodes, c \in ClientIds : AddClientToRoom(code, c)
  \/ \E code \in RoomCodes, p \in PlayerIds : AddPlayerToRoom(code, p)
  \/ \E code \in RoomCodes, c \in ClientIds : RemoveClientFromRoom(code, c)
  \/ \E code \in RoomCodes, p \in PlayerIds : RemovePlayerFromRoom(code, p)

RoomManagerSpec == Init /\ [][RoomManagerNext]_vars

\* The session without a mirror, where armed timers fire, pending
\* countdowns run out and suspended handlers resume; no client message is
\* ever required to arrive.
FairSpec ==
  /\ Spec
  /\ WF_vars(TimerFire)
  /\ WF_vars(CountdownFire)
  /\ WF_vars(\E i \in 1..MaxTasks + 2, o \in Outcomes : RunTask(i, o))

\* Liveness of connections without a mirror: connections, first joins, the
\* passing of time, heartbeats of the clients, the heartbeat interval, and
\* departures.
HeartbeatNext ==
  \/ \E c \in ClientIds : Connect(c)
  \/ \E c \in ClientIds, p \in PlayerIds : FirstJoin(c, p)
  \/ \E c \in ClientIds : Ping(c)
  \/ \E c \in ClientIds : Pong(c)
  \/ Advance
  \/ Sweep
  \/ \E c \in ClientIds : Close(c)
  \/ \E i \in 1..MaxTasks + 2, o \in Outcomes : RunTask(i, o)

HeartbeatSpec == Init /\ [][HeartbeatNext]_vars

\* A toggle_ready received while a countdown is pending.
Retoggle(c) ==
  /\ Inbound(c)
  /\ Admitted(c, "toggle_ready")
  /\ countdowns \in 1..MaxCountdowns
  /\ Commit(handleToggleReady(From(c), c), "toggle_ready", clients[c].roomCode)

\* Readiness without a mirror: first joins, toggles of the ready flag before
\* and during a countdown, the countdowns, start_game and departures.
ReadyNext ==
  \/ \E c \in ClientIds : Connect(c)
  \/ \E c \in ClientIds, p \in PlayerIds : FirstJoin(c, p)
  \/ \E c \in ClientIds : ToggleReady(c)
  \/ \E c \in ClientIds : Retoggle(c)
  \/ \E c \in ClientIds : StartGame(c)
  \/ \E c \in ClientIds : Leave(c)
  \/ CountdownFire
  \/ \E i \in 1..MaxTasks + 2, o \in Outcomes : RunTask(i, o)

ReadySpec == Init /\ [][ReadyNext]_vars

\* Fan-out without a mirror: first joins to either room, sockets that leave
\* the open state or whose sends start to throw, chat, departures, and the
\* removals that failed deliveries schedule.
FanoutNext ==
  \/ \E c \in ClientIds : Connect(c)
  \/ \E c \in ClientIds, p \in PlayerIds, code \in RoomCodes : RoomJoin(c, p, code)
  \/ \E c \in ClientIds : SocketClosing(c)
  \/ \E c \in ClientIds : SocketBreaking(c)
  \/ \E c \in ClientIds : Chat(c)
  \/ \E c \in ClientIds : Leave(c)
  \/ \E c \in ClientIds : Close(c)
  \/ \E c \in ClientIds : EvictRun(c)
  \/ \E i \in 1..MaxTasks + 2, o \in Outcomes : RunTask(i, o)

FanoutSpec == Init /\ [][FanoutNext]_vars

\* Payload validation without a mirror: first joins, start_game, and frames
\* of the types submit_answer and chat_message with any payload.
SchemaNext ==
  \/ \E c \in ClientIds : Connect(c)
  \/ \E c \in ClientIds, p \in PlayerIds : FirstJoin(c, p)
  \/ \E c \in ClientIds : StartGame(c)
  \/ \E c \in ClientIds, f \in SchemaFrames : Receive(c, f)
  \/ \E i \in 1..MaxTasks + 2, o \in Outcomes : RunTask(i, o)

SchemaSpec == Init /\ [][SchemaNext]_vars

\* calculateVoteResults on its own: any list of at most MaxVotes votes of
\* distinct voters, each for a player id (some of them array indices) or for
\* an inherited name, and any imposter.
TallyVoters == PlayerIds \cup {"p3"}

TallyTargets == PlayerIds \cup PrototypeKeys \cup SeqSet(IndexKeys)

VoteLists ==
  {v \in UNION {[1..n -> [playerId : TallyVoters, targetId : TallyTargets]] :
                  n \in 0..MaxVotes} :
     \A i, j \in 1..Len(v) : v[i].playerId = v[j].playerId => i = j}

TallyInit ==
  /\ db = FALSE
  /\ nextClient = 1
  /\ forced = 0
  /\ initPending = FALSE
  /\ clients = <<>>
  /\ players = <<>>
  /\ rooms = <<>>
  /\ gameState \in {[InitialGameState EXCEPT !.phase = "voting", !.votes = v,
                                              !.imposter = imposter] :
                       v \in VoteLists,
                       imposter \in PlayerIds \cup SeqSet(IndexKeys) \cup {NoPlayer}}
  /\ phaseTimer = "results"
  /\ timeouts = [armed |-> {[id |-> 1, to |-> "results"]}, handle |-> 1]
  /\ tasks = <<>>
  /\ evict = {}
  /\ countdowns = 0
  /\ answers = {}
  /\ heartbeat = [age |-> [c \in ClientIds |-> 0], sinceSweep |-> 0]
  /\ last = [ev |-> "init", room |-> NoRoom, out |-> <<>>, p |-> NoPlayer,
              c |-> NoClient, o |-> "none"]

CalculateVoteResults ==
  /\ gameState.results = <<>>
  /\ gameState' = [gameState EXCEPT !.results = <<calculateVoteResults(gameState)>>]
  /\ last' = [last EXCEPT !.ev = "calculateVoteResults"]
  /\ UNCHANGED <<db, nextClient, forced, initPending, clients, players, rooms,
                 phaseTimer, timeouts, tasks, evict, countdowns, answers, heartbeat>>

TallyNext == CalculateVoteResults

TallySpec == TallyInit /\ [][TallyNext]_vars

\* The session with a mirror, where the restored row arrives and armed
\* timers fire, but a mirror write may stay pending for ever: no fairness
\* for the resumption of a handler suspended on one.
FairMirrorSpec ==
  /\ MirrorSpec
  /\ WF_vars(\E row \in GameRows : InitializeGame(row))
  /\ WF_vars(TimerFire)

\* ------------------------------------------------------------------ claims
\* C1: no voter id appears more than once in the collected votes, whatever
\* the interleaving of vote messages and pending mirror writes.
NoDuplicateVoter ==
  \A i, j \in 1..Len(gameState.votes) :
    i # j => gameState.votes[i].playerId # gameState.votes[j].playerId

\* A second vote was recorded while the mirror write of an earlier vote is
\* still pending.
SecondVoteWhileWritePending ==
  /\ Len(gameState.votes) = 2
  /\ Cardinality({i \in 1..Len(tasks) : tasks[i].k = "voteCont"}) = 2

\* C2: during voting the number of collected votes is at most the number of
\* currently active players.
VotesWithinActivePlayers ==
  gameState.phase = "voting" => Len(gameState.votes) <= getPlayerCount(players)

\* C3: a step that calls transitionPhase for anything but a
\* force_phase_transition message goes from a phase to its immediate
\* successor in waiting -> question -> discussion -> voting -> results ->
\* waiting.
UnforcedChangeGoesToSuccessor ==
  [][LET transitions(ts) == Cardinality({i \in 1..Len(ts) : ts[i].k = "transCont"})
         resumed == IF last'.ev = "transCont" THEN 1 ELSE 0
         t == tasks'[Len(tasks')]
         successor == [waiting |-> "question", question |-> "discussion",
                       discussion |-> "voting", voting |-> "results",
                       results |-> "waiting"]
     IN  (/\ transitions(tasks') > transitions(tasks) - resumed
          /\ last'.ev # "force_phase_transition")
         => t.ph = successor[t.prev]]_vars

\* C4: outside results the public game-state view carries the imposter id
\* neither as a top-level field nor inside its results field.
PublicViewHidesImposter ==
  gameState.phase # "results" =>
    LET view == getPublicGameState(gameState)
    IN  /\ "imposter" \notin DOMAIN view
        /\ \A i \in 1..Len(view.results) : view.results[i].imposter = NoPlayer

\* C5: from any phase other than waiting the session eventually returns to
\* waiting when armed timers fire and no further client message is needed.
TimeoutsReturnToWaiting ==
  (gameState.phase # "waiting") ~> (gameState.phase = "waiting")

\* C6: the submit_answer that completes the answers of all active players
\* in question moves the session to discussion.
AllAnsweredEntersDiscussion ==
  [][(/\ last'.ev = "submit_answer"
      /\ gameState.phase = "question"
      /\ answers' # answers
      /\ getActivePlayers(players') \subseteq answers')
     => gameState'.phase = "discussion"]_vars

ReadyClearedOnWaiting ==
  [][(gameState.phase # "waiting" /\ gameState'.phase = "waiting")
     => \A p \in DOMAIN players' : ~players'[p].ready]_vars

\* C9: a broadcast caused by an event in one room reaches no connection
\* joined to a different room code.
BroadcastStaysInRoom ==
  \A i \in 1..Len(last.out) :
    (/\ last.room \in RoomCodes
     /\ last.out[i].type \in {"chat_message", "phase_change", "vote_progress",
                               "discussion_timer", "game_starting",
                               "player_list_update"})
    => \A c \in last.out[i].to \cap DOMAIN clients :
         clients[c].roomCode \in {last.room, NoRoom}

\* C10: a toggle_ready, start_game, vote or new_game of one room leaves the
\* phase, votes, imposter and results seen by another occupied room
\* unchanged.
RoomSessionIsolated ==
  [][(/\ last'.ev \in {"toggle_ready", "start_game", "vote", "new_game"}
      /\ last'.room \in RoomCodes
      /\ \E b \in DOMAIN rooms \ {last'.room} : rooms[b].clients # {})
     => /\ gameState'.phase = gameState.phase
        /\ gameState'.votes = gameState.votes
        /\ gameState'.imposter = gameState.imposter
        /\ gameState'.results = gameState.results]_vars

\* C11: one removal produces at most one player_list_update broadcast: two
\* consecutive resumptions of removePlayer for the same player do not both
\* broadcast the player list.
RemovalBroadcastsOnce ==
  [][LET listed(l) == \E i \in 1..Len(l.out) :
                        l.out[i].type = "player_list_update" /\ l.out[i].to # {}
     IN  (/\ last.ev = "removeCont" /\ last'.ev = "removeCont"
          /\ last'.p = last.p
          /\ listed(last))
         => ~listed(last')]_vars

\* C12: at most one registered connection is associated with any player id,
\* and a join carrying the player id of another connection unregisters that
\* connection and leaves exactly one player record and one connection for
\* the id.
OneConnectionPerPlayer ==
  [][LET holders(cl, p) == {c \in DOMAIN cl : cl[c].playerId = p}
     IN  /\ \A p \in PlayerIds : Cardinality(holders(clients', p)) <= 1
         /\ \A p \in PlayerIds :
              (/\ last'.ev = "join"
               /\ holders(clients, p) # {}
               /\ holders(clients', p) \ holders(clients, p) # {})
              => /\ holders(clients, p) \cap DOMAIN clients' = {}
                 /\ Cardinality(holders(clients', p)) = 1
                 /\ p \in DOMAIN players'
                 /\ players'[p].clientId \in holders(clients', p)]_vars

\* A join has just superseded the connection that held the player id.
JoinSupersededConnection ==
  /\ last.ev = "join"
  /\ \E p \in PlayerIds :
       /\ p \in DOMAIN players
       /\ players[p].clientId = 2
       /\ 1 \notin DOMAIN clients
       /\ \E i \in 1..Len(tasks) : tasks[i].k = "removeCont" /\ tasks[i].p = p

MalformedJoinRejected ==
  [][(/\ last'.ev = "join"
      /\ ~(Len(last'.room) = 3 /\ \A i \in 1..Len(last'.room) : last'.room[i] \in Digits))
     => /\ Len(last'.out) = 1
        /\ last'.out[1].type = "error"
        /\ Cardinality(last'.out[1].to) = 1
        /\ players' = players
        /\ clients' = clients
        /\ rooms' = rooms
        /\ gameState' = gameState
        /\ tasks' = tasks]_vars

UnauthenticatedRejected ==
  [][(/\ last'.ev \in {t \in DOMAIN messageTypes : messageTypes[t].requiresAuth}
      /\ last'.c \in DOMAIN clients
      /\ clients[last'.c].playerId = NoPlayer)
     => /\ last'.out = <<Msg("error", {last'.c}, AuthenticationRequired)>>
        /\ UNCHANGED <<clients, players, rooms, gameState, phaseTimer, answers,
                       tasks, evict, countdowns, forced>>]_vars

\* A connection without a player has just sent a vote during the voting
\* phase and got the authentication-required error.
UnauthenticatedVoteRefused ==
  /\ last.ev = "vote"
  /\ gameState.phase = "voting"
  /\ last.c \in DOMAIN clients /\ clients[last.c].playerId = NoPlayer
  /\ last.out = <<Msg("error", {last.c}, AuthenticationRequired)>>

PendingWriteDoesNotBlock ==
  /\ (\E i \in 1..Len(tasks) : tasks[i].k = "transCont") ~> (last.ev = "transCont")
  /\ (\E i \in 1..Len(tasks) : tasks[i].k = "voteCont") ~> (last.ev = "voteCont")

\* C19: during voting, once every handler has run to its end, fewer votes
\* are collected than there are active players: when the count of votes
\* reaches the count of active players, by a vote or by a departure, the
\* session has left voting for results.
VotingEndsWhenAllVoted ==
  (/\ gameState.phase = "voting"
   /\ tasks = <<>>
   /\ gameState.votes # <<>>)
  => Len(gameState.votes) < getPlayerCount(players)

\* C20: for every list of collected votes and every imposter,
\* calculateVoteResults returns voteCounts holding, for each target, the
\* number of votes for it; totalVotes equal to the number of votes and to
\* the sum of voteCounts; mostVotedPlayer a target with the maximal count
\* (no target when there is no vote); imposter equal to the session's
\* imposter; and playersWon true exactly when mostVotedPlayer is the
\* imposter.
TallyMatchesVotes ==
  last.ev = "calculateVoteResults" =>
    LET r == gameState.results[1]
        votes == gameState.votes
        targets == {votes[i].targetId : i \in 1..Len(votes)}
        n(t) == Cardinality({i \in 1..Len(votes) : votes[i].targetId = t})
    IN  /\ DOMAIN r.voteCounts = targets
        /\ \A t \in targets : r.voteCounts[t] = n(t)
        /\ r.totalVotes = Len(votes)
        /\ IF votes = <<>> THEN r.mostVotedPlayer = NoPlayer
           ELSE /\ r.mostVotedPlayer \in targets
                /\ \A t \in targets : n(r.mostVotedPlayer) >= n(t)
        /\ r.imposter = gameState.imposter
        /\ r.playersWon = (r.mostVotedPlayer = gameState.imposter)

\* C21: when two or more targets tie for the highest count, the plurality
\* target is the tied target whose first vote arrived earliest, so that the
\* outcome of a tie depends on the arrival order of the votes alone.  (Votes
\* for inherited names, which are not counted, are left aside here.)
TieGoesToFirstSeen ==
  LET votes == gameState.votes
      targets == {votes[i].targetId : i \in 1..Len(votes)}
      n(t) == Cardinality({i \in 1..Len(votes) : votes[i].targetId = t})
      first(t) == CHOOSE i \in 1..Len(votes) :
                    /\ votes[i].targetId = t
                    /\ \A j \in 1..(i - 1) : votes[j].targetId # t
      top == {t \in targets : \A u \in targets : n(t) >= n(u)}
  IN  (/\ last.ev = "calculateVoteResults"
       /\ targets \cap PrototypeKeys = {}
       /\ Cardinality(top) >= 2)
      => /\ gameState.results[1].mostVotedPlayer \in top
         /\ \A t \in top : first(gameState.results[1].mostVotedPlayer) <= first(t)

\* C22: a connection whose last heartbeat is at least the heartbeat timeout
\* old is evicted by the first run of the heartbeat interval after that, and
\* by none before: no registered connection is ever a whole interval past
\* the timeout, a run of the interval removes exactly the connections at or
\* past the timeout together with their players and leaves each such
\* player's removal to be announced, and the announcement, a
\* player_list_update, goes to every open connection that remains in the
\* player's room, when the player is no longer registered.  (A removal that
\* is part of a reconnection, where a join is suspended too, is no eviction
\* and is left aside.)
StaleConnectionEvicted ==
  [][/\ \A c \in DOMAIN clients' :
          heartbeat'.age[c] < HeartbeatTimeout + HeartbeatPeriod
     /\ last'.ev = "sweep" =>
          \A c \in DOMAIN clients :
            IF heartbeat.age[c] >= HeartbeatTimeout
            THEN /\ c \notin DOMAIN clients'
                 /\ clients[c].playerId # NoPlayer =>
                      /\ clients[c].playerId \notin DOMAIN players'
                      /\ \E i \in 1..Len(tasks') :
                            /\ tasks'[i].k = "removeCont"
                            /\ tasks'[i].p = clients[c].playerId
            ELSE c \in DOMAIN clients'
     /\ (/\ last'.ev = "removeCont"
         /\ \A i \in 1..Len(tasks) : tasks[i].k = "removeCont") =>
          LET remaining == {d \in DOMAIN clients' :
                              clients'[d].open /\ clients'[d].roomCode = last'.room}
          IN  /\ last'.p \notin DOMAIN players'
              /\ remaining # {} =>
                   \E k \in 1..Len(last'.out) :
                     /\ last'.out[k].type = "player_list_update"
                     /\ last'.out[k].to = remaining]_vars

\* A run of the heartbeat interval has just evicted a stale connection and
\* its player, while another player's connection remains in the room.
StaleEvictedOtherRemains ==
  /\ last.ev = "sweep"
  /\ \E i \in 1..Len(tasks) :
       /\ tasks[i].k = "removeCont"
       /\ tasks[i].p \notin DOMAIN players
       /\ \E d \in DOMAIN clients :
            /\ clients[d].open /\ clients[d].playerId # NoPlayer
            /\ clients[d].roomCode = tasks[i].r

\* C23: a chat message is broadcast as chat_message only while the session
\* is in discussion; in any other phase it is answered with one error
\* envelope to the sender and nothing is broadcast.
ChatOnlyInDiscussion ==
  [][last'.ev = "chat" =>
       IF gameState.phase = "discussion"
       THEN \E k \in 1..Len(last'.out) : last'.out[k].type = "chat_message"
       ELSE /\ Len(last'.out) = 1
            /\ last'.out[1].type = "error"
            /\ last'.out[1].to = {last'.c}]_vars

\* C24: a vote of a joined player outside the voting phase is refused with
\* the invalid-phase error, and a second vote of a player who has voted is
\* refused with the duplicate-vote error; either way the error goes to the
\* sender alone, the collected votes, the phase and the pending timer stay as
\* they were, and neither vote_progress nor phase_change is sent or left to
\* be sent.
RefusedVoteChangesNothing ==
  [][(/\ last'.ev = "vote"
      /\ last'.c \in DOMAIN clients
      /\ clients[last'.c].playerId # NoPlayer
      /\ \/ gameState.phase # "voting"
         \/ \E i \in 1..Len(gameState.votes) :
              gameState.votes[i].playerId = clients[last'.c].playerId)
     => /\ last'.out =
             <<Msg("error", {last'.c},
                   IF gameState.phase # "voting" THEN "Voting is not currently active"
                   ELSE "Player has already voted")>>
        /\ gameState' = gameState
        /\ phaseTimer' = phaseTimer
        /\ tasks' = tasks]_vars

\* A player who has voted has just voted again during the voting phase and
\* got the duplicate-vote error.
DuplicateVoteRefused ==
  /\ last.ev = "vote"
  /\ gameState.phase = "voting"
  /\ last.out = <<Msg("error", {last.c}, "Player has already voted")>>
  /\ \E i \in 1..Len(gameState.votes) :
       /\ last.c \in DOMAIN clients
       /\ gameState.votes[i].playerId = clients[last.c].playerId

\* C25: each voting phase starts a fresh ballot and ends by timeout with
\* partial results.  A step that enters voting leaves the collected votes
\* empty and the discussion deadline cleared; while the phase stays voting
\* the votes change only by one accepted vote being appended (or by a new
\* entry emptying them); and when the voting timer fires in voting the
\* session enters results with the votes untouched and the result computed
\* from exactly them.
FreshBallotPartialResults ==
  [][/\ (/\ gameState'.phase = "voting"
         /\ \/ gameState.phase # "voting"
            \/ last'.ev \in {"timer", "force_phase_transition", "voteCont"}
               /\ phaseTimer' = "results" /\ gameState'.votes # gameState.votes)
        => /\ gameState'.votes = <<>>
           /\ gameState'.discussionEndsAt = FALSE
     /\ (gameState.phase = "voting" /\ gameState'.phase = "voting")
        => \/ gameState'.votes = gameState.votes
           \/ gameState'.votes = <<>>
           \/ /\ last'.ev = "vote"
              /\ Len(gameState'.votes) = Len(gameState.votes) + 1
              /\ SubSeq(gameState'.votes, 1, Len(gameState.votes)) = gameState.votes
     /\ (last'.ev = "timer" /\ gameState.phase = "voting")
        => /\ gameState'.phase = "results"
           /\ gameState'.votes = gameState.votes
           /\ gameState'.results = <<calculateVoteResults(gameState)>>
           /\ gameState'.results[1].totalVotes = Len(gameState.votes)
           /\ \A t \in PlayerIds :
                LET n == Cardinality({i \in 1..Len(gameState.votes) :
                                        gameState.votes[i].targetId = t})
                IN  IF n = 0 THEN t \notin DOMAIN gameState'.results[1].voteCounts
                    ELSE gameState'.results[1].voteCounts[t] = n]_vars

\* The voting timer has just fired with one of two players' votes in, and
\* the results hold that one vote.
TimeoutWithPartialVotes ==
  /\ last.ev = "timer"
  /\ gameState.phase = "results"
  /\ gameState.results # <<>>
  /\ gameState.results[1].totalVotes = 1
  /\ Cardinality(gameState.players) = 2

\* The phase a timeout armed on entry to the given phase leads to.
TimerTarget(phase) ==
  CASE phase = "discussion" -> "voting"
    [] phase = "voting"     -> "results"
    [] phase = "results"    -> "waiting"
    [] OTHER                -> "none"

\* C26: at most one phase timer is pending at any time, and a pending timer
\* is always the one armed by the latest phase entry: it is the timeout
\* GameManager.phaseTimer refers to and it leads to the successor of the
\* current phase, so a timer of a superseded phase entry never fires.
OnePendingPhaseTimer ==
  /\ Cardinality(timeouts.armed) <= 1
  /\ \A t \in timeouts.armed :
       /\ t.id = timeouts.handle
       /\ t.to = phaseTimer
       /\ t.to = TimerTarget(gameState.phase)

\* The last vote of a round has just replaced the voting timeout by the
\* timeout of the results.
VotingTimerSuperseded ==
  /\ last.ev \in {"vote", "voteCont"}
  /\ gameState.phase = "results"
  /\ timeouts.armed = {[id |-> 1, to |-> "waiting"]}

\* C27: a voting round triggers one transition into results.  A vote
\* (handled at once or resumed after its mirror insert) calls
\* transitionPhase only while the phase is still voting, so the results
\* are computed once and one phase_change to results is queued per round
\* (in behaviours without force_phase_transition, at steps where the timer
\* of the current phase is pending).
OneResultsTransitionPerRound ==
  [][LET transitions(ts) == Cardinality({i \in 1..Len(ts) : ts[i].k = "transCont"})
     IN  (/\ last'.ev \in {"vote", "voteCont"}
          /\ forced = 0
          /\ phaseTimer = TimerTarget(gameState.phase)
          /\ transitions(tasks') > transitions(tasks))
         => gameState.phase = "voting"]_vars

\* C28: once a join has fully completed (its handler has finished and no
\* continuation is pending), a reconnection included, every registered
\* player with a room code is in that room's player set and its connection
\* is in that room's connection set.
RoomsAgreeAfterJoin ==
  (last.ev = "joinCont" /\ tasks = <<>>) =>
    \A p \in DOMAIN players :
      LET code == players[p].roomCode
      IN  code # NoRoom =>
            /\ code \in DOMAIN rooms
            /\ p \in SeqSet(rooms[code].players)
            /\ players[p].clientId \in rooms[code].clients

\* C29: after every completed event (no continuation pending), whether a
\* message, a transport close, an eviction or a connection replacement, the
\* session's player list equals the registry's set of active players.
SessionPlayersMatchRegistry ==
  tasks = <<>> => gameState.players = getActivePlayers(players)

\* C30: every player record of the registry is backed by a registered
\* connection whose player id is that player, whatever joins, leaves and
\* closes have been handled.
PlayerBackedByConnection ==
  tasks = <<>> =>
    \A p \in DOMAIN players :
      \E c \in DOMAIN clients : clients[c].playerId = p

\* C31: the countdown armed by toggle_ready starts the game only if every
\* active player is still ready when it runs out, and a countdown that
\* does not start the game reports its error to a client.
CountdownStartsOnlyAllReady ==
  [][last'.ev = "countdown" =>
       IF gameState'.phase = "question" /\ gameState.phase = "waiting"
       THEN areAllPlayersReady(players)
       ELSE \E i \in 1..Len(last'.out) : last'.out[i].type = "error"]_vars

\* The state the phase handler of a phase leaves behind.
SetupApplied(gs, phase) ==
  CASE phase = "discussion" -> gs.discussionEndsAt
    [] phase = "voting"     -> gs.votes = <<>> /\ ~gs.discussionEndsAt
    [] phase = "results"    -> gs.results = <<calculateVoteResults(gs)>>
    [] phase = "waiting"    -> /\ gs.imposter = NoPlayer /\ gs.questionId = NoQuestion
                               /\ gs.votes = <<>> /\ gs.results = <<>>
                               /\ ~gs.discussionEndsAt
    [] OTHER                -> TRUE

\* C32: a phase_change for a transition to phase P is sent only by the
\* resumption of a transition to P that was pending, and a transition to P
\* becomes pending only in a step that leaves the in-memory phase at P with
\* the setup of P applied; so the broadcast follows the mutation.
PhaseChangeAfterMutation ==
  [][LET transitions(ts) == Cardinality({i \in 1..Len(ts) : ts[i].k = "transCont"})
         resumed == IF last'.ev = "transCont" THEN 1 ELSE 0
         t == tasks'[Len(tasks')]
     IN  /\ \A m \in SeqSet(last'.out) :
              m.type = "phase_change" =>
                /\ last'.ev = "transCont"
                /\ \E i \in 1..Len(tasks) :
                     /\ tasks[i].k = "transCont" /\ tasks[i].ph = m.ph
                     /\ tasks' = SubSeq(tasks, 1, i - 1) \o SubSeq(tasks, i + 1, Len(tasks))
         /\ transitions(tasks') > transitions(tasks) - resumed
            => /\ gameState'.phase = t.ph
               /\ SetupApplied(gameState', t.ph)]_vars

\* The phase_change to results has just been broadcast, with the results
\* computed and the phase at results.
ResultsAnnounced ==
  /\ last.ev = "transCont"
  /\ \E m \in SeqSet(last.out) : m.type = "phase_change" /\ m.ph = "results" /\ m.to # {}
  /\ gameState.phase = "results"
  /\ gameState.results # <<>>

\* C33: the step that processes a connection's transport close, or its
\* leave as a joined player, leaves the connection in neither the registry
\* nor the connection set of its room; and every message of any step goes
\* only to connections registered when the step began or connected by it, so
\* none reaches a connection removed before (client ids are never reused).
DisconnectedIsNoTarget ==
  [][/\ \A c \in DOMAIN clients :
          (\/ Close(c)
           \/ last'.ev = "leave" /\ last'.c = c /\ Authed(c))
          => /\ c \notin DOMAIN clients'
             /\ clients[c].roomCode \in DOMAIN rooms'
                => c \notin rooms'[clients[c].roomCode].clients
     /\ \A m \in SeqSet(last'.out) :
          m.to \subseteq DOMAIN clients \cup (DOMAIN clients' \ DOMAIN clients)
     /\ DOMAIN clients' \ DOMAIN clients \subseteq {nextClient}]_vars

\* A connection of a room has been closed, and the player list has then been
\* broadcast to the member that remains.
RemainingMemberNotified ==
  /\ last.ev = "removeCont"
  /\ nextClient = MaxClients + 1
  /\ Cardinality(DOMAIN clients) = 1
  /\ \E m \in SeqSet(last.out) : m.type = "player_list_update" /\ m.to = DOMAIN clients

\* C34: the close of a player's last connection removes the player from
\* the registry at once and leaves the rest of the removal pending; when
\* that rest runs, the player is registered no more, is no member of its
\* room, every open connection still in the room is sent a
\* player_list_update (built from the registry, which lacks the player), and
\* the room is gone exactly if it has neither a player nor a connection
\* left.  (A removal that is part of a reconnection, where a join is
\* suspended too, is left aside.)
LastConnectionRemovalCleansUp ==
  [][/\ \A c \in DOMAIN clients :
          (Close(c) /\ clients[c].playerId # NoPlayer) =>
            /\ clients[c].playerId \notin DOMAIN players'
            /\ \E i \in 1..Len(tasks') :
                 tasks'[i].k = "removeCont" /\ tasks'[i].p = clients[c].playerId
     /\ (/\ last'.ev = "removeCont"
         /\ \A i \in 1..Len(tasks) : tasks[i].k = "removeCont") =>
          LET code == last'.room
              p == last'.p
              remaining == {d \in DOMAIN clients' :
                              clients'[d].open /\ clients'[d].roomCode = code}
          IN  /\ p \notin DOMAIN players'
              /\ code \in DOMAIN rooms' =>
                   /\ p \notin SeqSet(rooms'[code].players)
                   /\ rooms'[code].clients # {} \/ rooms'[code].players # <<>>
              /\ (code \in DOMAIN rooms /\ code \notin DOMAIN rooms') =>
                   /\ rooms[code].clients = {}
                   /\ SeqSet(rooms[code].players) \subseteq {p}
              /\ remaining # {} =>
                   \E m \in SeqSet(last'.out) :
                     m.type = "player_list_update" /\ m.to = remaining]_vars

\* The removal of a closed connection's player has just been announced to the
\* member that remains in the room.
ClosedPlayerAnnounced ==
  /\ last.ev = "removeCont"
  /\ last.p \notin DOMAIN players
  /\ last.room \in DOMAIN rooms
  /\ \E m \in SeqSet(last.out) :
       m.type = "player_list_update" /\ m.to # {} /\ m.to = rooms[last.room].clients

\* C35: a broadcast is not aborted by a connection whose socket is not open
\* or whose send throws.  A chat_message goes, once, to exactly the
\* registered connections that are open and whose send succeeds, and the
\* others are scheduled for removal with nothing removed meanwhile; the
\* player_list_update of a removal goes, once, to exactly such connections
\* of the room, the others of the room being scheduled for removal; and the
\* removal scheduled for a connection takes it out of the registry.
FailedSendDoesNotAbort ==
  [][LET count(type) == Cardinality({k \in 1..Len(last'.out) : last'.out[k].type = type})
         sent(type, to) == \E m \in SeqSet(last'.out) : m.type = type /\ m.to = to
     IN  /\ last'.ev = "chat" =>
              LET ok == {c \in DOMAIN clients : CanSend(clients, c)}
              IN  /\ count("chat_message") = 1
                  /\ sent("chat_message", ok)
                  /\ evict' = evict \cup (DOMAIN clients \ ok)
                  /\ clients' = clients
         /\ (/\ last'.ev = "removeCont"
             /\ \A i \in 1..Len(tasks) : tasks[i].k = "removeCont"
             /\ last'.room \in DOMAIN rooms') =>
              LET members == rooms'[last'.room].clients
                  ok == {c \in members : CanSend(clients, c)}
              IN  /\ count("player_list_update") = 1
                  /\ sent("player_list_update", ok)
                  /\ evict' = evict \cup (members \ ok)
         /\ \A c \in ClientIds : EvictRun(c) => c \notin DOMAIN clients']_vars

\* A chat_message has just been delivered to one connection although the
\* send to the other connection threw, and that other one is scheduled for
\* removal.
DeliveredDespiteFailure ==
  /\ last.ev = "chat"
  /\ \E c \in DOMAIN clients, d \in DOMAIN clients :
       /\ c < d
       /\ clients[c].open /\ clients[c].sendFails
       /\ c \in evict
       /\ CanSend(clients, d)
       /\ \E m \in SeqSet(last.out) : m.type = "chat_message" /\ m.to = {d}

ViolatesSchema(f) ==
  LET schema == messageTypes[f.type]
  IN  \/ f.payload \in {"omitted", "missing_field"} /\ schema.required # {}
      \/ f.payload = "wrong_type" /\ schema.required \cup schema.optional # {}
      \/ f.payload = "too_long" /\ schema.maxLength > 0

\* C37: a frame of a registered type whose payload violates the schema of
\* that type is rejected before routing: the sender gets one error envelope,
\* nothing is broadcast, and the session, the answers and the pending work
\* are left as they were.
SchemaViolationRejected ==
  [][\A c \in DOMAIN clients, f \in SchemaFrames :
       (/\ Receive(c, f)
        /\ messageTypes[f.type].requiresAuth => Authed(c)
        /\ ViolatesSchema(f))
       => /\ Len(last'.out) = 1
          /\ last'.out[1].type = "error" /\ last'.out[1].to = {c}
          /\ UNCHANGED <<gameState, answers, tasks>>]_vars

\* C38: in the rooms the server keeps (made by joins, none created with a
\* preset host), a room with at least one player has one of its players as
\* host and a room without players has no host; the first player added to
\* a room without players becomes its host, and a host that is removed is
\* replaced by a remaining player.
HostIsMember ==
  [][\A code \in DOMAIN rooms' :
       LET room == rooms'[code]
           before == IF code \in DOMAIN rooms THEN rooms[code] ELSE NewRoom
       IN  /\ room.players # <<>> => room.hostId \in SeqSet(room.players)
           /\ room.players = <<>> => room.hostId = NoPlayer
           /\ (before.players = <<>> /\ room.players # <<>>)
              => room.hostId = room.players[1]
           /\ (before.hostId \in SeqSet(room.players))
              => room.hostId = before.hostId]_vars

\* The host of a room has left it and the player that remains is the host.
HostReelected ==
  /\ last.ev = "removeCont"
  /\ last.room \in DOMAIN rooms
  /\ rooms[last.room].players # <<>>
  /\ rooms[last.room].hostId = rooms[last.room].players[1]
  /\ rooms[last.room].hostId # last.p
  /\ last.p \notin SeqSet(rooms[last.room].players)

\* C39: a vote that is recorded has an active player as its voter and, as
\* its target, a player of the session (one the session lists or an active
\* one); and the plurality target that a computation of the results
\* reports is, when there is one, such a player.
VotesReferToParticipants ==
  [][LET votes == gameState'.votes
         participants == gameState.players \cup getActivePlayers(players)
     IN  /\ Len(votes) > Len(gameState.votes)
            => /\ votes[Len(votes)].playerId \in getActivePlayers(players)
               /\ votes[Len(votes)].targetId \in participants
         /\ (gameState.results = <<>> /\ gameState'.results # <<>>
             /\ gameState'.results[1].mostVotedPlayer # NoPlayer)
            => gameState'.results[1].mostVotedPlayer \in participants]_vars

\* C40: in the results phase the computed results report playersWon only
\* if the round has an imposter and at least one collected vote is for that
\* imposter.
PlayersWinOnlyByVotingImposter ==
  (/\ gameState.phase = "results"
   /\ gameState.results # <<>>
   /\ gameState.results[1].playersWon)
  => /\ gameState.imposter # NoPlayer
     /\ \E i \in 1..Len(gameState.votes) :
          gameState.votes[i].targetId = gameState.imposter

====
